---- MODULE Spec2Model ----
(***************************************************************************)
(* Model of backend/store/serializers.py (CraftyCarrot): the owner         *)
(* attachment mixin, the store-profile write path (one atomic transaction  *)
(* per create call, calls of several requests interleaved), the is_self    *)
(* computed field, the schema variants' field tuples and the recursive     *)
(* category serializer.                                                    *)
(*                                                                         *)
(* Values are integers throughout: user ids and field values are drawn     *)
(* from 1..MaxUsers, 0 stands for Python's None / "nothing written yet".       *)
(***************************************************************************)
EXTENDS Integers, Sequences, FiniteSets, TLC

VARIABLES
    db_users,      \* storage: the user table, committed rows
    db_profiles,   \* storage: the StoreProfile table, committed rows
    nextId,        \* storage: the StoreProfile primary-key sequence
    calls,         \* the StoreProfileSerializer.create calls in flight
    sers,          \* serializer instances using SetOwnProfileMixin
    products,      \* storage: the Product table
    out,           \* the last representation produced by the read path
    cats,          \* storage: the Category table (a forest)
    catOut         \* the last output of CategorySerializer

vars == <<db_users, db_profiles, nextId, calls, sers, products, out, cats, catOut>>

----------------------------------------------------------------------------
\* Bounds of the model.

MaxUsers == 2
MaxReqs == 2
MaxSers == 2
MaxCats == 4

Users == 1..MaxUsers
Reqs == 1..MaxReqs
\* Field values and client-supplied references: the range of the keys.
Values == Users
Sers == 1..MaxSers
CatIds == 1..MaxCats

\* Python's None (getattr(..., None) on lines 20 and 54), as a reference.
None == 0

----------------------------------------------------------------------------
\* Python dict helpers.

\* dict.update(e): the keys of e overwrite those of d (lines 29 and 67).
DictUpdate(d, e) ==
    [k \in (DOMAIN d) \cup (DOMAIN e) |-> IF k \in DOMAIN e THEN e[k] ELSE d[k]]

Restrict(d, S) == [k \in (DOMAIN d) \cap S |-> d[k]]

Without(d, S) == [k \in (DOMAIN d) \ S |-> d[k]]

EmptyDict == [k \in {} |-> 0]

SeqToSet(s) == {s[i] : i \in DOMAIN s}

\* The tuple copied without the filter.
TupleWithout_keepsAll(fields, name) == fields

\* tuple(f for f in fields if f != name) (lines 81 and 88).
TupleWithout(fields, name) == SelectSeq(fields, LAMBDA f : f # name)

----------------------------------------------------------------------------
\* The request context a serializer is given: self.context. kind is
\* "no_request" (no 'request' key), "no_user" (a request without a user),
\* "anonymous" (AnonymousUser) or "authenticated" (uid is the user's id).

Contexts ==
    {[kind |-> k, uid |-> 0] : k \in {"no_request", "no_user", "anonymous"}}
        \cup {[kind |-> "authenticated", uid |-> u] : u \in Users}

\* user.profile, the reverse accessor of the one-to-one relation: the id of
\* the profile row of user u among rows, None when there is none (the
\* accessor then raises RelatedObjectDoesNotExist, an AttributeError).
ProfileOf(rows, u) ==
    IF \E p \in rows : p.user = u
    THEN (CHOOSE p \in rows : p.user = u).id
    ELSE None

----------------------------------------------------------------------------
\* StoreProfileSerializer.Meta and the variants' field tuples.

user_fields == <<"email", "first_name", "last_name">>

StoreProfileSerializer_fields ==
    user_fields \o <<"id", "is_self", "phone", "city", "address",
                     "person_type", "seller_type", "products">>

StoreProfileSerializer_read_only_fields == <<"id", "email", "products">>

\* flatten_fields = {'user': user_fields}
flatten_fields == [user |-> user_fields]

StoreProfileCreateSerializer_fields ==
    TupleWithout(StoreProfileSerializer_fields, "products")

StoreProfileNestedSerializer_fields ==
    TupleWithout(StoreProfileSerializer_fields, "products")

ProductNestedSerializer_fields ==
    <<"id", "category", "category_name", "seller", "title", "unit",
      "unit_price", "quantity", "created", "modified">>

\* ProductListSerializer declares no Meta of its own: it inherits the nested one.
ProductListSerializer_fields == ProductNestedSerializer_fields

ProductDetailSerializer_fields == ProductListSerializer_fields \o <<"description">>

----------------------------------------------------------------------------
\* StoreProfileSerializer.create, one step per statement; the calls of
\* different requests interleave between the steps.

\* create without the decorator: every write is committed as it is made.
transaction_atomic_missing == FALSE

\* @transaction.atomic on create: the writes of one call are buffered in the
\* call's transaction and reach the tables at commit, or never (rollback).
transaction_atomic == TRUE

IdleCall ==
    [pc |-> "idle", ctx |-> [kind |-> "no_request", uid |-> 0],
     input |-> EmptyDict, data |-> EmptyDict, err |-> "none",
     txUser |-> <<>>, txProfile |-> <<>>,
     steps |-> <<>>, handed |-> <<>>, hadProfile |-> FALSE]

\* The validated payloads the calls are given: a set of keys, every key
\* bound to value v. A 'user' key is a client-supplied user reference.
PayloadKeySets ==
    { {"email", "first_name", "city", "user"},
      {"phone"} }

Payloads == {[k \in ks |-> v] : ks \in PayloadKeySets, v \in Values}

InFlight(r) == calls[r].pc \notin {"idle", "done"}

\* The exception leaves the atomic block: the transaction's buffered writes
\* are dropped and the call ends with the error.
Raise(c, e) ==
    [c EXCEPT !.pc = "done", !.err = e, !.txUser = <<>>, !.txProfile = <<>>]

\* Line 59: user = self.context['request'].user, inside the atomic block.
Begin(r, ctx, data) ==
    /\ calls[r].pc = "idle"
    /\ \A q \in Reqs : q < r => calls[q].pc # "idle"
    /\ LET c == [calls[r] EXCEPT !.ctx = ctx, !.input = data, !.data = data,
                     !.hadProfile = (ctx.kind = "authenticated"
                                     /\ ProfileOf(db_profiles, ctx.uid) # None)]
       IN  calls' = [calls EXCEPT ![r] =
               IF ctx.kind = "no_request" THEN Raise(c, "KeyError")
               ELSE IF ctx.kind = "no_user" THEN Raise(c, "AttributeError")
               ELSE [c EXCEPT !.pc = "check"]]
    /\ UNCHANGED <<db_users, db_profiles, nextId, sers, products, out, cats, catOut>>

\* The check with the authentication test inverted.
AlreadyHasProfile_inverted(ctx) ==
    /\ ctx.kind # "authenticated"
    /\ ProfileOf(db_profiles, ctx.uid) # None

\* Lines 61-62: user and user.is_authenticated and hasattr(user, 'profile')
\* and user.profile. The accessor reads the committed rows.
AlreadyHasProfile(ctx) ==
    /\ ctx.kind = "authenticated"
    /\ ProfileOf(db_profiles, ctx.uid) # None

\* Lines 61-63: the duplicate-profile check.
Check(r) ==
    /\ calls[r].pc = "check"
    /\ LET c == [calls[r] EXCEPT !.steps = Append(@, "check")]
       IN  calls' = [calls EXCEPT ![r] =
               IF AlreadyHasProfile(c.ctx) THEN Raise(c, "ValidationError")
               ELSE [c EXCEPT !.pc = "flatten"]]
    /\ UNCHANGED <<db_users, db_profiles, nextId, sers, products, out, cats, catOut>>

\* The row lock of user u is held by another call's open transaction.
UserRowLocked(r, u) ==
    \E q \in Reqs \ {r} :
        InFlight(q) /\ calls[q].txUser # <<>> /\ calls[q].ctx.uid = u

\* FlatNestedSerializerMixin._update_flattened_field for the group 'user':
\* the group's fields present in the payload, taken out of it, are written
\* to the related object.
FlattenedRow(row, data, r) ==
    [DictUpdate(row, Restrict(data, SeqToSet(flatten_fields.user)))
        EXCEPT !.by = r]

FlattenedRest(data) == Without(data, SeqToSet(flatten_fields.user))

\* Lines 65-66: related_objects = {'user': user}; the flatten step writes
\* the user. An AnonymousUser cannot be saved.
Flatten(r) ==
    /\ calls[r].pc = "flatten"
    /\ LET c == [calls[r] EXCEPT !.steps = Append(@, "user_write")]
           u == c.ctx.uid
       IN  IF c.ctx.kind = "anonymous"
           THEN /\ calls' = [calls EXCEPT ![r] = Raise(c, "NotImplementedError")]
                /\ UNCHANGED db_users
           ELSE /\ ~UserRowLocked(r, u)
                /\ IF transaction_atomic
                   THEN /\ calls' = [calls EXCEPT ![r] =
                               [c EXCEPT !.pc = "inject",
                                         !.data = FlattenedRest(c.data),
                                         !.txUser = <<FlattenedRow(db_users[u], c.data, r)>>]]
                        /\ UNCHANGED db_users
                   ELSE /\ calls' = [calls EXCEPT ![r] =
                               [c EXCEPT !.pc = "inject",
                                         !.data = FlattenedRest(c.data)]]
                        /\ db_users' = [db_users EXCEPT ![u] =
                               FlattenedRow(db_users[u], c.data, r)]
    /\ UNCHANGED <<db_profiles, nextId, sers, products, out, cats, catOut>>

\* The merge the other way round: related_objects.update(validated_data).
InjectRelated_clientWins(data, uid) == DictUpdate([user |-> uid], data)

\* Line 67: validated_data.update(related_objects).
InjectRelated(data, uid) == DictUpdate(data, [user |-> uid])

Inject(r) ==
    /\ calls[r].pc = "inject"
    /\ calls' = [calls EXCEPT ![r] =
           [@ EXCEPT !.pc = "parent",
                     !.steps = Append(@, "inject"),
                     !.data = InjectRelated(calls[r].data, calls[r].ctx.uid)]]
    /\ UNCHANGED <<db_users, db_profiles, nextId, sers, products, out, cats, catOut>>

\* The storage layer's uniqueness constraint of StoreProfile.user: a
\* committed row of the same user makes the insert fail; an uncommitted one
\* of another transaction makes it wait.
UniqueViolation(u) == \E p \in db_profiles : p.user = u

InsertWaits(r, u) ==
    \E q \in Reqs \ {r} :
        InFlight(q) /\ calls[q].txProfile # <<>> /\ calls[q].txProfile[1].user = u

\* Line 68: super().create(validated_data), the insert of the parent row.
ParentCreate(r) ==
    /\ calls[r].pc = "parent"
    /\ LET c == [calls[r] EXCEPT !.steps = Append(@, "parent_create"),
                                 !.handed = <<calls[r].data>>]
           u == c.data["user"]
           row == [id |-> nextId, user |-> u, by |-> r,
                   data |-> Without(c.data, {"user"})]
       IN  /\ ~InsertWaits(r, u)
           /\ IF UniqueViolation(u)
              THEN /\ calls' = [calls EXCEPT ![r] = Raise(c, "IntegrityError")]
                   /\ UNCHANGED <<db_profiles, nextId>>
              ELSE /\ nextId' = nextId + 1
                   /\ IF transaction_atomic
                      THEN /\ calls' = [calls EXCEPT ![r] =
                                  [c EXCEPT !.pc = "commit", !.txProfile = <<row>>]]
                           /\ UNCHANGED db_profiles
                      ELSE /\ calls' = [calls EXCEPT ![r] = [c EXCEPT !.pc = "commit"]]
                           /\ db_profiles' = db_profiles \cup {row}
    /\ UNCHANGED <<db_users, sers, products, out, cats, catOut>>

\* Line 68 when the storage layer fails the insert for a reason of its own
\* (connectivity, another constraint): an opaque failure.
ParentCreateFails(r) ==
    /\ calls[r].pc = "parent"
    /\ calls' = [calls EXCEPT ![r] =
           Raise([@ EXCEPT !.steps = Append(@, "parent_create"),
                           !.handed = <<calls[r].data>>], "StorageFailure")]
    /\ UNCHANGED <<db_users, db_profiles, nextId, sers, products, out, cats, catOut>>

\* Line 57, leaving the atomic block without an exception: commit.
Commit(r) ==
    /\ calls[r].pc = "commit"
    /\ LET c == calls[r]
       IN  /\ db_users' = IF c.txUser # <<>>
                          THEN [db_users EXCEPT ![c.ctx.uid] = c.txUser[1]]
                          ELSE db_users
           /\ db_profiles' = IF c.txProfile # <<>>
                             THEN db_profiles \cup {c.txProfile[1]}
                             ELSE db_profiles
           /\ calls' = [calls EXCEPT ![r] =
                  [c EXCEPT !.pc = "done", !.txUser = <<>>, !.txProfile = <<>>]]
    /\ UNCHANGED <<nextId, sers, products, out, cats, catOut>>

----------------------------------------------------------------------------
\* SetOwnProfileMixin and the schemas built on it.

\* The schema classes constructed: product serializers of the module (the
\* list and detail serializers inherit create and Meta.profile_field_name
\* from the nested one), and two misconfigured subclasses of the mixin (one
\* without a Meta, one whose Meta declares no profile_field_name).
MixinClasses ==
    {"ProductNestedSerializer", "ProductDetailSerializer", "NoMeta", "MetaWithoutName"}

ProductClasses ==
    {"ProductNestedSerializer", "ProductListSerializer", "ProductDetailSerializer"}

\* getattr(self, 'Meta', None) and its profile_field_name attribute.
\* ProductListSerializer has the nested serializer's Meta, the detail
\* serializer's Meta extends it (lines 37-43, 92-98).
MetaOf(cls) ==
    IF cls \in ProductClasses
    THEN [present |-> TRUE, has_name |-> TRUE, profile_field_name |-> "seller"]
    ELSE IF cls = "MetaWithoutName"
    THEN [present |-> TRUE, has_name |-> FALSE, profile_field_name |-> ""]
    ELSE [present |-> FALSE, has_name |-> FALSE, profile_field_name |-> ""]

\* The lookup with a default instead of the exception:
\* getattr(Meta, 'profile_field_name', None).
get_profile_field_name_lenient(cls) ==
    [raised |-> "none", value |-> MetaOf(cls).profile_field_name]

\* Lines 18-22.
get_profile_field_name(cls) ==
    IF MetaOf(cls).present /\ MetaOf(cls).has_name
    THEN [raised |-> "none", value |-> MetaOf(cls).profile_field_name]
    ELSE [raised |-> "ImproperlyConfigured", value |-> ""]

\* The owner resolved with a default: getattr(user, 'profile', None).
get_profile_kwargs_lenient(cls, ctx, rows) ==
    IF ctx.kind = "no_request"
    THEN [raised |-> "KeyError", kwargs |-> EmptyDict]
    ELSE [raised |-> "none",
          kwargs |-> (get_profile_field_name(cls).value :>
                         (IF ctx.kind = "authenticated"
                          THEN ProfileOf(rows, ctx.uid) ELSE None))]

\* Lines 24-26: user = self.context['request'].user;
\* {self.get_profile_field_name(): user.profile}.
get_profile_kwargs(cls, ctx, rows) ==
    IF ctx.kind = "no_request"
    THEN [raised |-> "KeyError", kwargs |-> EmptyDict]
    ELSE IF ctx.kind \in {"no_user", "anonymous"}
    THEN [raised |-> "AttributeError", kwargs |-> EmptyDict]
    ELSE IF ProfileOf(rows, ctx.uid) = None
    THEN [raised |-> "RelatedObjectDoesNotExist", kwargs |-> EmptyDict]
    ELSE [raised |-> "none",
          kwargs |-> (get_profile_field_name(cls).value :> ProfileOf(rows, ctx.uid))]

\* The merge with the client's value winning: setdefault instead of update.
merge_profile_kwargs_clientWins(validated_data, kwargs) ==
    DictUpdate(kwargs, validated_data)

\* Line 29: validated_data.update(self.get_profile_kwargs()).
merge_profile_kwargs(validated_data, kwargs) == DictUpdate(validated_data, kwargs)

NoSer ==
    [state |-> "none", cls |-> "", ctx |-> [kind |-> "no_request", uid |-> 0],
     input |-> EmptyDict, handed |-> <<>>, ncreate |-> 0, err |-> "none"]

\* Lines 14-16: __init__ resolves the field name once, for the check. The
\* instances serve one request each, one request after the other.
Construct(s, cls, ctx) ==
    /\ sers[s].state = "none"
    /\ \A q \in Sers : q < s => sers[q].state # "none"
    /\ LET name == get_profile_field_name(cls)
       IN  sers' = [sers EXCEPT ![s] =
               [@ EXCEPT !.cls = cls, !.ctx = ctx,
                         !.state = IF name.raised = "none" THEN "constructed"
                                   ELSE name.raised,
                         !.err = name.raised]]
    /\ UNCHANGED <<db_users, db_profiles, nextId, calls, products, out, cats, catOut>>

\* ModelSerializer.create of a product serializer: Product.objects.create
\* with the payload it is handed.
ProductRow(id, s, handed) ==
    [id |-> id, by |-> s,
     seller |-> IF "seller" \in DOMAIN handed THEN handed["seller"] ELSE None,
     title |-> IF "title" \in DOMAIN handed THEN handed["title"] ELSE 0]

\* The validated payloads of a product create: a title, alone or with a
\* client-supplied profile reference under 'seller'.
ProductPayloads ==
    {[title |-> 1]} \cup {[title |-> 1, seller |-> v] : v \in Values}

\* Lines 28-30: SetOwnProfileMixin.create.
SetOwnProfileMixin_create(s, validated_data) ==
    /\ sers[s].state = "constructed"
    /\ \A q \in Sers : q > s => sers[q].state = "none"
    /\ LET kw == get_profile_kwargs(sers[s].cls, sers[s].ctx, db_profiles)
           handed == merge_profile_kwargs(validated_data, kw.kwargs)
       IN  IF kw.raised # "none"
           THEN /\ sers' = [sers EXCEPT ![s] =
                       [@ EXCEPT !.state = "failed", !.err = kw.raised]]
                /\ UNCHANGED products
           ELSE /\ sers' = [sers EXCEPT ![s] =
                       [@ EXCEPT !.state = "created", !.input = validated_data,
                                 !.handed = <<handed>>, !.ncreate = @ + 1]]
                /\ products' = Append(products,
                                      ProductRow(Len(products) + 1, s, handed))
    /\ UNCHANGED <<db_users, db_profiles, nextId, calls, out, cats, catOut>>

----------------------------------------------------------------------------
\* The read path: StoreProfileSerializer.get_is_self and the field tuples
\* the variants expose.

\* The comparison made on the wrong key: profile.pk == user.pk.
get_is_self_byUserId(ctx, profile, rows) ==
    ctx.kind = "authenticated" /\ profile = ctx.uid

\* Lines 51-55: request = self.context.get('request');
\* me = getattr(getattr(request, 'user', None), 'profile', None);
\* return profile == me.
get_is_self(ctx, profile, rows) ==
    LET has_user == ctx.kind \in {"anonymous", "authenticated"}
        me == IF has_user /\ ctx.kind = "authenticated"
              THEN ProfileOf(rows, ctx.uid)
              ELSE None
    IN  profile = me

ProfileClasses ==
    {"StoreProfileSerializer", "StoreProfileCreateSerializer",
     "StoreProfileNestedSerializer"}

\* Meta.fields of each serializer class.
FieldsOf(cls) ==
    CASE cls = "StoreProfileSerializer" -> StoreProfileSerializer_fields
      [] cls = "StoreProfileCreateSerializer" -> StoreProfileCreateSerializer_fields
      [] cls = "StoreProfileNestedSerializer" -> StoreProfileNestedSerializer_fields
      [] cls = "ProductNestedSerializer" -> ProductNestedSerializer_fields
      [] cls = "ProductListSerializer" -> ProductListSerializer_fields
      [] cls = "ProductDetailSerializer" -> ProductDetailSerializer_fields

NoOut ==
    [kind |-> "none", cls |-> "", ctx |-> [kind |-> "no_request", uid |-> 0],
     obj |-> 0, keys |-> <<>>, is_self |-> FALSE, seller_keys |-> <<>>]

\* to_representation of a profile serializer: the declared fields in their
\* declared order, is_self computed for the profile being serialized.
SerializeProfile(cls, ctx, p) ==
    /\ p \in db_profiles
    /\ out' = [kind |-> "profile", cls |-> cls, ctx |-> ctx, obj |-> p.id,
               keys |-> FieldsOf(cls),
               is_self |-> get_is_self(ctx, p.id, db_profiles),
               seller_keys |-> <<>>]
    /\ UNCHANGED <<db_users, db_profiles, nextId, calls, sers, products, cats, catOut>>

\* to_representation of a product serializer. The list and detail
\* serializers nest the seller through StoreProfileNestedSerializer
\* (line 93); the nested product serializer exposes the seller's key.
SerializeProduct(cls, ctx, i) ==
    /\ i \in DOMAIN products
    /\ out' = [kind |-> "product", cls |-> cls, ctx |-> ctx, obj |-> products[i].id,
               keys |-> FieldsOf(cls),
               is_self |-> IF cls = "ProductNestedSerializer" THEN FALSE
                           ELSE get_is_self(ctx, products[i].seller, db_profiles),
               seller_keys |-> IF cls = "ProductNestedSerializer" THEN <<>>
                               ELSE FieldsOf("StoreProfileNestedSerializer")]
    /\ UNCHANGED <<db_users, db_profiles, nextId, calls, sers, products, cats, catOut>>

----------------------------------------------------------------------------
\* CategorySerializer: children = RecursiveField(many=True).

\* The child categories of n (the inverse of the parent reference), by id.
ChildrenOf(tbl, n) ==
    SelectSeq([i \in 1..Len(tbl) |-> i], LAMBDA i : tbl[i].parent = n)

\* The serializer with the children rendered by a flat, non-recursive schema.
CategorySerializer_oneLevel(tbl, n) ==
    [name |-> tbl[n].name, slug |-> tbl[n].slug,
     children |-> [i \in 1..Len(ChildrenOf(tbl, n)) |->
                      [name |-> tbl[ChildrenOf(tbl, n)[i]].name,
                       slug |-> tbl[ChildrenOf(tbl, n)[i]].slug,
                       children |-> <<>>]]]

\* Lines 101-106: fields = ('name', 'slug', 'children'), every child
\* serialized by the same schema.
RECURSIVE CategorySerializer(_, _)
CategorySerializer(tbl, n) ==
    [name |-> tbl[n].name, slug |-> tbl[n].slug,
     children |-> [i \in 1..Len(ChildrenOf(tbl, n)) |->
                      CategorySerializer(tbl, ChildrenOf(tbl, n)[i])]]

NoCatOut == [root |-> 0, tbl |-> <<>>, rep |-> <<>>]

\* The storage layer adds a category under an existing parent or as a root:
\* the table stays a forest.
AddCategory(parent, name) ==
    /\ Len(cats) < MaxCats
    /\ parent \in 0..Len(cats)
    /\ cats' = Append(cats, [parent |-> parent, name |-> name, slug |-> Len(cats) + 1])
    /\ UNCHANGED <<db_users, db_profiles, nextId, calls, sers, products, out, catOut>>

SerializeCategory(root) ==
    /\ root \in DOMAIN cats
    /\ catOut' = [root |-> root, tbl |-> cats, rep |-> CategorySerializer(cats, root)]
    /\ UNCHANGED <<db_users, db_profiles, nextId, calls, sers, products, out, cats>>

----------------------------------------------------------------------------
\* Initial states and specifications.

InitUserRow == [email |-> 0, first_name |-> 0, last_name |-> 0, by |-> 0]

\* The profile tables the storage can hold before the modelled calls: some
\* users have a profile, with a key of its own (by 0: no modelled call).
ProfileTables ==
    UNION { { {[id |-> f[u], user |-> u, by |-> 0, data |-> EmptyDict] : u \in S} :
                f \in {g \in [S -> Users] :
                          \A a, b \in S : a # b => g[a] # g[b]} } :
            S \in SUBSET Users }

InitProfile ==
    /\ db_users = [u \in Users |-> InitUserRow]
    /\ db_profiles = {}
    /\ nextId = 1
    /\ calls = [r \in Reqs |-> IdleCall]
    /\ sers = [s \in Sers |-> NoSer]
    /\ products = <<>>
    /\ out = NoOut
    /\ cats = <<>>
    /\ catOut = NoCatOut

NextProfile ==
    \/ \E r \in Reqs, ctx \in Contexts, data \in Payloads : Begin(r, ctx, data)
    \/ \E r \in Reqs : Check(r)
    \/ \E r \in Reqs : Flatten(r)
    \/ \E r \in Reqs : Inject(r)
    \/ \E r \in Reqs : ParentCreate(r)
    \/ \E r \in Reqs : ParentCreateFails(r)
    \/ \E r \in Reqs : Commit(r)

SpecProfile == InitProfile /\ [][NextProfile]_vars

InitOwner ==
    /\ db_users = [u \in Users |-> InitUserRow]
    /\ db_profiles \in ProfileTables
    /\ nextId = MaxUsers + 1
    /\ calls = [r \in Reqs |-> IdleCall]
    /\ sers = [s \in Sers |-> NoSer]
    /\ products = <<>>
    /\ out = NoOut
    /\ cats = <<>>
    /\ catOut = NoCatOut

NextOwner ==
    \/ \E s \in Sers, cls \in MixinClasses, ctx \in Contexts : Construct(s, cls, ctx)
    \/ \E s \in Sers, data \in ProductPayloads : SetOwnProfileMixin_create(s, data)

SpecOwner == InitOwner /\ [][NextOwner]_vars

\* The read path runs over a storage that holds profiles and the products
\* of their owners.
InitRead ==
    /\ db_users = [u \in Users |-> InitUserRow]
    /\ db_profiles \in ProfileTables
    /\ nextId = MaxUsers + 1
    /\ calls = [r \in Reqs |-> IdleCall]
    /\ sers = [s \in Sers |-> NoSer]
    /\ products \in {<<>>} \cup {<<[id |-> 1, by |-> 0, seller |-> p.id, title |-> 1]>> :
                                     p \in db_profiles}
    /\ out = NoOut
    /\ cats = <<>>
    /\ catOut = NoCatOut

NextRead ==
    \/ \E cls \in ProfileClasses, ctx \in Contexts, p \in db_profiles :
           SerializeProfile(cls, ctx, p)
    \/ \E cls \in ProductClasses, ctx \in Contexts, i \in DOMAIN products :
           SerializeProduct(cls, ctx, i)

SpecRead == InitRead /\ [][NextRead]_vars

NextCategory ==
    \/ \E parent \in 0..MaxCats, name \in Values : AddCategory(parent, name)
    \/ \E root \in CatIds : SerializeCategory(root)

InitCategory == InitProfile

SpecCategory == InitCategory /\ [][NextCategory]_vars

----------------------------------------------------------------------------
\* Properties of the store-profile write path (SpecProfile).

Succeeded(r) == calls[r].pc = "done" /\ calls[r].err = "none"

Failed(r) == calls[r].pc = "done" /\ calls[r].err # "none"

ProfilesOfUser(u) == {p \in db_profiles : p.user = u}

\* What call r has left in the committed tables.
TracesOf(r) ==
    {u \in Users : db_users[u].by = r} \cup {p.id : p \in {q \in db_profiles : q.by = r}}

\* C2: a create call of an authenticated actor who already has a profile
\* ends in ValidationError right after the check: it never reaches the
\* flatten step, writes neither the user nor a profile, and the actor keeps
\* exactly one profile.
C2_DuplicateRejected ==
    \A r \in Reqs :
        calls[r].hadProfile =>
            /\ calls[r].pc \in {"check", "done"}
            /\ calls[r].txUser = <<>> /\ calls[r].txProfile = <<>>
            /\ TracesOf(r) = {}
            /\ Cardinality(ProfilesOfUser(calls[r].ctx.uid)) = 1
            /\ calls[r].pc = "done" =>
                   /\ calls[r].err = "ValidationError"
                   /\ calls[r].steps = <<"check">>

C2_Witness ==
    \E r \in Reqs :
        /\ calls[r].hadProfile
        /\ calls[r].pc = "done"
        /\ calls[r].err = "ValidationError"
        /\ \E q \in Reqs \ {r} : Succeeded(q) /\ calls[q].ctx = calls[r].ctx

\* C3: the committed tables hold the writes of a call only once the call
\* has returned successfully, and then hold all of them: a call in flight or
\* failed has left no user row and no profile row behind, a successful one
\* has left both.
C3_Atomicity ==
    \A r \in Reqs :
        /\ ~Succeeded(r) => TracesOf(r) = {}
        /\ Succeeded(r) =>
               /\ db_users[calls[r].ctx.uid].by = r
               /\ \E p \in db_profiles : p.by = r /\ p.user = calls[r].ctx.uid

\* A call whose parent create failed after its flatten step wrote the user.
C3_Witness ==
    \E r \in Reqs :
        /\ Failed(r)
        /\ calls[r].err \in {"StorageFailure", "IntegrityError"}
        /\ calls[r].steps = <<"check", "user_write", "inject", "parent_create">>
        /\ Restrict(calls[r].input, SeqToSet(user_fields)) # EmptyDict

\* At most one profile per user (the storage constraint at work).
AtMostOneProfile == \A u \in Users : Cardinality(ProfilesOfUser(u)) <= 1

\* C4: at most one profile per actor, and every create call of an
\* authenticated actor that ends without creating the profile, other than by
\* a storage failure of the environment's own, ends in ValidationError.
C4_LosersGetValidationError ==
    /\ AtMostOneProfile
    /\ \A r \in Reqs :
           (Failed(r) /\ calls[r].ctx.kind = "authenticated"
                /\ calls[r].err # "StorageFailure")
               => calls[r].err = "ValidationError"

\* C9: a successful create has taken the steps check, user write, inject,
\* parent create in this order; the payload handed to the parent create
\* binds 'user' to the current actor and holds no field of the flatten
\* group; and a profile row of a call exists, buffered or committed, only
\* when the call's user write does.
C9_WritePathOrder ==
    \A r \in Reqs :
        /\ Succeeded(r) =>
               /\ calls[r].steps = <<"check", "user_write", "inject", "parent_create">>
               /\ "user" \in DOMAIN calls[r].handed[1]
               /\ calls[r].handed[1]["user"] = calls[r].ctx.uid
               /\ (DOMAIN calls[r].handed[1]) \cap SeqToSet(user_fields) = {}
        /\ (calls[r].txProfile # <<>> \/ \E p \in db_profiles : p.by = r) =>
               (calls[r].txUser # <<>> \/ db_users[calls[r].ctx.uid].by = r)

\* A successful create whose payload carried group fields and a
\* client-supplied 'user' other than the actor.
C9_Witness ==
    \E r \in Reqs :
        /\ Succeeded(r)
        /\ {"user", "email", "first_name"} \subseteq DOMAIN calls[r].input
        /\ calls[r].input["user"] # calls[r].ctx.uid
        /\ db_users[calls[r].ctx.uid].email = calls[r].input["email"]

----------------------------------------------------------------------------
\* Properties of the owner attachment mixin (SpecOwner).

HasOwnProfile(ctx) ==
    ctx.kind = "authenticated" /\ \E p \in db_profiles : p.user = ctx.uid

OwnProfile(ctx) == (CHOOSE p \in db_profiles : p.user = ctx.uid).id

ProductsBy(s) == {i \in DOMAIN products : products[i].by = s}

\* C1: whenever a create through the mixin has reached the underlying
\* create, the payload handed over binds the owner field 'seller' to the
\* actor's own profile, whatever the client's payload held under that key,
\* and the product row persisted by the call has that profile as seller.
C1_OwnerAuthority ==
    \A s \in Sers :
        sers[s].state = "created" =>
            /\ HasOwnProfile(sers[s].ctx)
            /\ "seller" \in DOMAIN sers[s].handed[1]
            /\ sers[s].handed[1]["seller"] = OwnProfile(sers[s].ctx)
            /\ ProductsBy(s) # {}
            /\ \A i \in ProductsBy(s) : products[i].seller = OwnProfile(sers[s].ctx)

\* A create whose payload carried another profile under 'seller'.
C1_Witness ==
    \E s \in Sers :
        /\ sers[s].state = "created"
        /\ "seller" \in DOMAIN sers[s].input
        /\ sers[s].input["seller"] # OwnProfile(sers[s].ctx)
        /\ \E p \in db_profiles : p.id = sers[s].input["seller"]

Declared(cls) == MetaOf(cls).present /\ MetaOf(cls).has_name

\* C5: an instance of a class that declares no profile_field_name ends its
\* construction in ImproperlyConfigured (never a ValidationError) and no
\* create is ever run on it; an instance of a class that declares the name
\* is constructed.
C5_EagerConfigurationCheck ==
    \A s \in Sers :
        sers[s].state # "none" =>
            /\ ~Declared(sers[s].cls) =>
                   /\ sers[s].state = "ImproperlyConfigured"
                   /\ sers[s].err = "ImproperlyConfigured"
                   /\ sers[s].ncreate = 0 /\ sers[s].handed = <<>>
                   /\ ProductsBy(s) = {}
            /\ Declared(sers[s].cls) =>
                   sers[s].state \in {"constructed", "created", "failed"}

\* A misconfigured schema refused, beside a configured one that created.
C5_Witness ==
    /\ \E s \in Sers :
           sers[s].state = "ImproperlyConfigured" /\ sers[s].cls = "MetaWithoutName"
    /\ \E s \in Sers : sers[s].state = "created"

\* C10: no product row is without an owner; a create of an actor without a
\* profile fails before the underlying create and persists nothing; the
\* underlying create runs at most once per call, and the table holds exactly
\* the rows the underlying creates wrote.
C10_NoRecordWithoutOwner ==
    /\ \A i \in DOMAIN products :
           /\ products[i].seller # None
           /\ \E p \in db_profiles : p.id = products[i].seller
    /\ \A s \in Sers :
           /\ sers[s].ncreate <= 1
           /\ Cardinality(ProductsBy(s)) = sers[s].ncreate
           /\ (sers[s].state \in {"created", "failed"} /\ ~HasOwnProfile(sers[s].ctx)) =>
                  /\ sers[s].state = "failed"
                  /\ sers[s].err \in {"KeyError", "AttributeError",
                                      "RelatedObjectDoesNotExist"}
                  /\ sers[s].ncreate = 0 /\ sers[s].handed = <<>>

\* An authenticated actor without a profile and an anonymous one both failed.
C10_Witness ==
    /\ \E s \in Sers :
           /\ sers[s].state = "failed"
           /\ sers[s].ctx.kind = "authenticated"
           /\ sers[s].err = "RelatedObjectDoesNotExist"
    /\ \E s \in Sers : sers[s].state = "failed" /\ sers[s].ctx.kind = "anonymous"

----------------------------------------------------------------------------
\* Properties of the read path (SpecRead).

\* C6: the is_self of a serialized profile is true exactly when the context
\* has an authenticated actor whose profile row is the serialized one; it is
\* false for a context without request, without user, with an anonymous
\* user or with an actor without profile, and for an actor whose profile is
\* another one.
C6_IsSelf ==
    out.kind = "profile" =>
        /\ out.is_self \in BOOLEAN
        /\ out.is_self <=>
               (/\ out.ctx.kind = "authenticated"
                /\ \E p \in db_profiles : p.user = out.ctx.uid /\ p.id = out.obj)
        /\ (out.ctx.kind # "authenticated" \/ ~HasOwnProfile(out.ctx)) => ~out.is_self

\* The actor's own profile serialized, its key differing from the user's.
C6_Witness ==
    /\ out.kind = "profile"
    /\ HasOwnProfile(out.ctx)
    /\ out.is_self
    /\ out.obj # out.ctx.uid

\* The position of field f in the tuple fields.
IndexOf(fields, f) == CHOOSE i \in DOMAIN fields : fields[i] = f

\* sub keeps the order its fields have in fields, without repetition.
KeepsOrderOf(sub, fields) ==
    \A i, j \in DOMAIN sub :
        i < j => IndexOf(fields, sub[i]) < IndexOf(fields, sub[j])

\* C7: a representation made by the creation or the nested variant exposes
\* the base fields minus 'products', in the base's order, the two variants
\* expose the same tuple, and one made by the product detail variant exposes
\* the list variant's fields plus 'description'.
C7_VariantFieldSets ==
    /\ (out.kind = "profile" /\ out.cls \in {"StoreProfileCreateSerializer",
                                             "StoreProfileNestedSerializer"}) =>
           /\ SeqToSet(out.keys) = SeqToSet(FieldsOf("StoreProfileSerializer")) \ {"products"}
           /\ Len(out.keys) = Len(FieldsOf("StoreProfileSerializer")) - 1
           /\ KeepsOrderOf(out.keys, FieldsOf("StoreProfileSerializer"))
           /\ out.keys = FieldsOf("StoreProfileCreateSerializer")
           /\ out.keys = FieldsOf("StoreProfileNestedSerializer")
    /\ (out.kind = "product" /\ out.cls = "ProductDetailSerializer") =>
           /\ SeqToSet(out.keys) = SeqToSet(FieldsOf("ProductListSerializer")) \cup {"description"}
           /\ Len(out.keys) = Len(FieldsOf("ProductListSerializer")) + 1
           /\ SeqToSet(out.seller_keys)
                  = SeqToSet(FieldsOf("StoreProfileSerializer")) \ {"products"}

C7_Witness ==
    /\ out.kind = "product"
    /\ out.cls = "ProductDetailSerializer"
    /\ "description" \in SeqToSet(out.keys)
    /\ "products" \notin SeqToSet(out.seller_keys)

----------------------------------------------------------------------------
\* Properties of the category serializer (SpecCategory).

\* The categories of the subtree of n in tbl.
RECURSIVE Subtree(_, _)
Subtree(tbl, n) ==
    {n} \cup UNION {Subtree(tbl, c) : c \in {i \in DOMAIN tbl : tbl[i].parent = n}}

\* The number of nodes of a nested representation.
RECURSIVE SumOver(_, _)
SumOver(f, S) ==
    IF S = {} THEN 0
    ELSE LET x == CHOOSE x \in S : TRUE IN f[x] + SumOver(f, S \ {x})

RECURSIVE CountNodes(_)
CountNodes(rep) ==
    1 + SumOver([i \in DOMAIN rep.children |-> CountNodes(rep.children[i])],
                DOMAIN rep.children)

\* rep has the shape of the subtree of n: the node's three fields, and one
\* child representation per child category, each of that child's shape.
RECURSIVE SameShape(_, _, _)
SameShape(rep, tbl, n) ==
    LET kids == {i \in DOMAIN tbl : tbl[i].parent = n}
    IN  /\ DOMAIN rep = {"name", "slug", "children"}
        /\ rep.name = tbl[n].name
        /\ rep.slug = tbl[n].slug
        /\ Len(rep.children) = Cardinality(kids)
        /\ \A c \in kids :
               \E i \in DOMAIN rep.children :
                   /\ rep.children[i].slug = tbl[c].slug
                   /\ SameShape(rep.children[i], tbl, c)

\* C8: the output of CategorySerializer for a category of a forest has the
\* shape of the category's subtree and as many nodes, every node exposing
\* exactly name, slug and children.
C8_RecursiveCategories ==
    catOut.root # 0 =>
        /\ SameShape(catOut.rep, catOut.tbl, catOut.root)
        /\ CountNodes(catOut.rep) = Cardinality(Subtree(catOut.tbl, catOut.root))

\* A tree of depth three with a branching node serialized from its root.
C8_Witness ==
    /\ catOut.root # 0
    /\ Len(catOut.rep.children) >= 2
    /\ \E i \in DOMAIN catOut.rep.children :
           /\ Len(catOut.rep.children[i].children) >= 1
    /\ CountNodes(catOut.rep) >= 4

====
